---- MODULE Spec2Model ----
(***************************************************************************)
(* The concurrent task executor of concurrent-task-workers/main.go:        *)
(* a caller goroutine that builds a TaskExecutor and then calls AddTask,   *)
(* Close, BlockOn and GetResults on it, and the TaskWorker goroutines      *)
(* that InitializeTaskExecutor starts.  Every access to shared state       *)
(* (the atomic jobcounter, the jobs channel, the mutex, the results map,   *)
(* the WaitGroup) is one step, so the goroutines interleave exactly        *)
(* between the statements where the Go scheduler can interleave them.      *)
(***************************************************************************)
EXTENDS Integers, Sequences, FiniteSets, TLC

\* ---------------------------------------------------------------- bounds
MaxWorkers == 2          \* largest worker count handed to InitializeTaskExecutor
MaxTasks   == 3          \* largest number of AddTask calls in an ordinary script
QueueCap   == 10         \* make(chan Task[RType], 10)

WorkerIds   == 0 .. (MaxWorkers - 1)
WorkerCounts == -1 .. MaxWorkers
BurstTasks  == QueueCap + 1          \* one task more than the channel buffers
TaskSeqs    == 1 .. BurstTasks       \* the k-th task sent is task k

NoWorker == -1
NoTask   == [seq |-> 0, id |-> 0]
ZeroValue == 0                       \* the zero value of RType (int)
NoFetch  == [id |-> -1, value |-> ZeroValue]

VARIABLES
    workers,     \* the argument of InitializeTaskExecutor
    script,      \* the calls the caller goroutine makes, in order
    ip,          \* index in script of the call in progress
    cpc,         \* the caller's position inside that call
    spawned,     \* InitializeTaskExecutor: the loop variable workerid
    ctask,       \* AddTask: the local variable task
    returned,    \* what GetResults last returned
    fetched,     \* what GetResultByTaskId last returned, with the id asked for
    jobcounter,  \* taskexecutor.jobcounter (atomic.Int32)
    jobs,        \* taskexecutor.jobs: the buffered tasks, oldest first
    closed,      \* whether close(taskexecutor.jobs) has happened
    results,     \* taskexecutor.results: task id -> return value
    mu,          \* taskexecutor.mu: the worker holding it, or NoWorker
    wg,          \* taskexecutor.wg: the WaitGroup counter
    wpc,         \* each worker's position in TaskWorker
    wtask,       \* TaskWorker: the local variable task
    wold,        \* TaskWorker: the local variable oldjobcounter
    panicked,    \* "none", or the runtime panic that ended the program
    assigned,    \* history: the ids given to tasks, in submission order
    taken,       \* history: how often each task was received from jobs
    ran,         \* history: how often each task's job was run
    written,     \* history: the tasks whose result was stored
    submitted,   \* history: AddTask calls that returned
    completed,   \* history: worker decrements that finished
    closedWith   \* history: the tasks buffered when Close closed the channel

cvars == <<workers, script, ip, cpc, spawned, ctask, returned, fetched>>
evars == <<jobcounter, jobs, closed, results, mu, wg>>
wvars == <<wpc, wtask, wold>>
hvars == <<assigned, taken, ran, written, submitted, completed, closedWith>>
xvars == <<cvars, evars, wvars, hvars, panicked>>

\* ------------------------------------------------ the port scanner's state
MaxScanWorkers == 2      \* largest ps.workers
MaxPorts       == 3      \* longest port list, widest port range

ScanWorkerIds == 0 .. (MaxScanWorkers - 1)
NoPort   == 0
NoResult == [Port |-> NoPort, Open |-> FALSE, Service |-> ""]

VARIABLES
    sfunc,       \* the scan function called, "none" when no scan runs
    sports,      \* the ports the scan is asked for, in the order they are sent
    sworkers,    \* ps.workers
    openPorts,   \* the ports of ps.host on which net.DialTimeout succeeds
    sjobs,       \* the jobs channel: buffered ports, oldest first
    sjobsClosed, \* whether close(jobs) has happened
    sresults,    \* the results channel: buffered ScanResults, oldest first
    sresClosed,  \* whether close(results) has happened
    swg,         \* the scan's WaitGroup counter
    mpc,         \* the scan function's own position
    mi,          \* the loop variable i of the worker-starting loop
    scanResults, \* the slice scanResults, in the order collected
    sret,        \* the slice the scan function returned
    swpc,        \* each scan worker's position
    swjob,       \* each scan worker's port and the result of its ScanPort
    sendpc,      \* the position of the goroutine that sends the jobs
    sendi,       \* its index into the ports
    closepc,     \* the position of the goroutine that closes results
    spanic       \* "none", or the runtime panic that ended the scan

svars == <<sfunc, sports, sworkers, openPorts, sjobs, sjobsClosed, sresults,
           sresClosed, swg, mpc, mi, scanResults, sret, swpc, swjob, sendpc,
           sendi, closepc, spanic>>

\* no scan is running
ScanIdle ==
    /\ sfunc = "none"
    /\ sports = << >>
    /\ sworkers = 0
    /\ openPorts = {}
    /\ sjobs = << >>
    /\ sjobsClosed = FALSE
    /\ sresults = << >>
    /\ sresClosed = FALSE
    /\ swg = 0
    /\ mpc = "idle"
    /\ mi = 0
    /\ scanResults = << >>
    /\ sret = << >>
    /\ swpc = [w \in ScanWorkerIds |-> "unborn"]
    /\ swjob = [w \in ScanWorkerIds |-> NoResult]
    /\ sendpc = "unborn"
    /\ sendi = 1
    /\ closepc = "unborn"
    /\ spanic = "none"

\* ------------------------------------------------ the live reloader's state
MaxMonitors == 3         \* MonitorFileChanges goroutines started for the path
MaxEdits    == 2         \* times the file's content changes
MaxContent  == 2         \* the file's contents are 0 .. MaxContent
ChangesCap  == 10        \* make(chan string, 10)

MonitorIds == 1 .. MaxMonitors
Contents   == 0 .. MaxContent
NoHash     == <<"none">>

VARIABLES
    content,     \* the content of the watched file
    edits,       \* history: how often the content has changed
    stored,      \* filehashes[path], NoHash while the map has no entry
    changes,     \* the changes channel: buffered paths, oldest first
    rpc,         \* each MonitorFileChanges goroutine's position
    rhash,       \* MonitorFileChanges: string(bs), the hash of what it read
    rload,       \* MonitorFileChanges: hashvalue (NoHash when !exists)
    rread,       \* history: the content each goroutine read
    started,     \* the goroutines VisitDir has started for the path
    notified,    \* history: each goroutine's sends on the changes channel
    delivered    \* history: paths GetFileChangesFromChannel handed to changefunc

rvars == <<content, edits, stored, changes, rpc, rhash, rload, rread,
           started, notified, delivered>>

\* the live reloader right after New(): no hash stored, no goroutine started
ReloadIdle ==
    /\ content = 0
    /\ edits = 0
    /\ stored = NoHash
    /\ changes = << >>
    /\ rpc = [g \in MonitorIds |-> "unborn"]
    /\ rhash = [g \in MonitorIds |-> NoHash]
    /\ rload = [g \in MonitorIds |-> NoHash]
    /\ rread = [g \in MonitorIds |-> 0]
    /\ started = 0
    /\ notified = [g \in MonitorIds |-> 0]
    /\ delivered = 0

vars  == <<xvars, svars, rvars>>

\* ------------------------------------------------------------ the caller
Repeat(op, n) == [i \in 1 .. n |-> op]

\* main: AddTask n times, Close, BlockOn, GetResults
MainScript(n) ==
    <<"Initialize">> \o Repeat("AddTask", n) \o <<"Close", "BlockOn", "GetResults">>

\* a caller that calls Close a second time
DoubleCloseScript(n) ==
    <<"Initialize">> \o Repeat("AddTask", n) \o <<"Close", "Close">>

\* a caller that joins without closing
UnclosedScript(n) ==
    <<"Initialize">> \o Repeat("AddTask", n) \o <<"BlockOn", "GetResults">>

\* a caller that reads the results right after submitting
EarlyGetScript(n) ==
    <<"Initialize">> \o Repeat("AddTask", n) \o <<"GetResults", "GetResultByTaskId">>

Scripts(n) ==
    {MainScript(n), DoubleCloseScript(n), UnclosedScript(n)}
        \cup (IF n = 1 THEN {EarlyGetScript(n)} ELSE {})

\* the first position inside a call
Entry(op) ==
    CASE op = "Initialize" -> "go"
      [] op = "AddTask"    -> "load"
      [] op = "Close"      -> "check"
      [] op = "BlockOn"    -> "wait"
      [] op = "GetResults" -> "get"
      [] op = "GetResultByTaskId" -> "getbyid"

\* the caller returns from the call in progress and enters the next one
Return ==
    /\ ip' = ip + 1
    /\ cpc' = IF ip + 1 > Len(script) THEN "end" ELSE Entry(script[ip + 1])

Running == panicked = "none"

ExecInitFor(w, s) ==
    /\ workers = w
    /\ script = s
    /\ ip = 1
    /\ cpc = "go"
    /\ spawned = 0
    /\ ctask = NoTask
    /\ returned = << >>
    /\ fetched = NoFetch
    /\ jobcounter = 0
    /\ jobs = << >>
    /\ closed = FALSE
    /\ results = << >>
    /\ mu = NoWorker
    /\ wg = 0
    /\ wpc = [x \in WorkerIds |-> "unborn"]
    /\ wtask = [x \in WorkerIds |-> NoTask]
    /\ wold = [x \in WorkerIds |-> 0]
    /\ panicked = "none"
    /\ assigned = << >>
    /\ taken = [k \in TaskSeqs |-> 0]
    /\ ran = [k \in TaskSeqs |-> 0]
    /\ written = {}
    /\ submitted = 0
    /\ completed = 0
    /\ closedWith = {}

\* no executor is in use
ExecIdle == ExecInitFor(0, <<"Initialize">>)

InitFor(w, s) ==
    /\ ExecInitFor(w, s)
    /\ ScanIdle
    /\ ReloadIdle

Init ==
    \/ \E w \in WorkerCounts, n \in 0 .. MaxTasks :
           \E s \in Scripts(n) : InitFor(w, s)
    \/ InitFor(0, MainScript(BurstTasks))

\* InitializeTaskExecutor: go TaskWorker(&taskexecutor, workerid)
InitGo ==
    /\ Running /\ cpc = "go"
    /\ IF spawned < workers
         THEN /\ wpc' = [wpc EXCEPT ![spawned] = "recv"]
              /\ cpc' = "wgadd"
              /\ UNCHANGED ip
         ELSE /\ Return
              /\ UNCHANGED wpc
    /\ UNCHANGED <<workers, script, spawned, ctask, returned, fetched,
                   evars, wtask, wold, hvars, panicked>>
    /\ UNCHANGED <<svars, rvars>>

\* InitializeTaskExecutor: taskexecutor.wg.Add(1)
InitWgAdd ==
    /\ Running /\ cpc = "wgadd"
    /\ wg' = wg + 1
    /\ spawned' = spawned + 1
    /\ cpc' = "go"
    /\ UNCHANGED <<workers, script, ip, ctask, returned, fetched, jobcounter, jobs,
                   closed, results, mu, wvars, hvars, panicked>>
    /\ UNCHANGED <<svars, rvars>>

\* AddTask: task := Task{id: taskexecutor.jobcounter.Load(), ...}
AddTaskLoad ==
    /\ Running /\ cpc = "load"
    /\ ctask' = [seq |-> Len(assigned) + 1, id |-> jobcounter]
    /\ assigned' = Append(assigned, jobcounter)
    /\ cpc' = "send"
    /\ UNCHANGED <<workers, script, ip, spawned, returned, fetched, evars, wvars,
                   taken, ran, written, submitted, completed, closedWith, panicked>>
    /\ UNCHANGED <<svars, rvars>>

\* AddTask with a send that gives up when the buffer is full
\* (select { case jobs <- task: default: })
AddTaskSendOrDrop ==
    /\ Running /\ cpc = "send"
    /\ IF closed
         THEN /\ panicked' = "send on closed channel"
              /\ UNCHANGED <<jobs, cpc>>
         ELSE /\ jobs' = IF Len(jobs) < QueueCap THEN Append(jobs, ctask) ELSE jobs
              /\ cpc' = "add"
              /\ UNCHANGED panicked
    /\ UNCHANGED <<workers, script, ip, spawned, ctask, returned, fetched, jobcounter,
                   closed, results, mu, wg, wvars, hvars>>
    /\ UNCHANGED <<svars, rvars>>

\* AddTask: taskexecutor.jobs <- task (blocks while the buffer is full)
AddTaskSend ==
    /\ Running /\ cpc = "send"
    /\ IF closed
         THEN /\ panicked' = "send on closed channel"
              /\ UNCHANGED <<jobs, cpc>>
         ELSE /\ Len(jobs) < QueueCap
              /\ jobs' = Append(jobs, ctask)
              /\ cpc' = "add"
              /\ UNCHANGED panicked
    /\ UNCHANGED <<workers, script, ip, spawned, ctask, returned, fetched, jobcounter,
                   closed, results, mu, wg, wvars, hvars>>
    /\ UNCHANGED <<svars, rvars>>

\* AddTask: taskexecutor.jobcounter.Add(1); return true
AddTaskAdd ==
    /\ Running /\ cpc = "add"
    /\ jobcounter' = jobcounter + 1
    /\ submitted' = submitted + 1
    /\ Return
    /\ UNCHANGED <<workers, script, spawned, ctask, returned, fetched, jobs, closed,
                   results, mu, wg, wvars, assigned, taken, ran, written,
                   completed, closedWith, panicked>>
    /\ UNCHANGED <<svars, rvars>>

\* JobsDone: taskexecutor.jobcounter.Load() == 0
JobsDone == jobcounter = 0

\* Close: one turn of the loop, if tasksexecutor.JobsDone() {...}
CloseCheck ==
    /\ Running /\ cpc = "check"
    /\ cpc' = IF JobsDone THEN "close" ELSE "check"
    /\ UNCHANGED <<workers, script, ip, spawned, ctask, returned, fetched, evars,
                   wvars, hvars, panicked>>
    /\ UNCHANGED <<svars, rvars>>

\* Close: close(tasksexecutor.jobs); break
CloseJobs ==
    /\ Running /\ cpc = "close"
    /\ IF closed
         THEN /\ panicked' = "close of closed channel"
              /\ UNCHANGED <<closed, ip, cpc, closedWith>>
         ELSE /\ closed' = TRUE
              /\ closedWith' = {jobs[i].seq : i \in DOMAIN jobs}
              /\ Return
              /\ UNCHANGED panicked
    /\ UNCHANGED <<workers, script, spawned, ctask, returned, fetched,
                   jobcounter, jobs, results, mu, wg, wvars, assigned, taken,
                   ran, written, submitted, completed>>
    /\ UNCHANGED <<svars, rvars>>

\* BlockOn that returns without waiting for the WaitGroup
BlockOnNoWait ==
    /\ Running /\ cpc = "wait"
    /\ Return
    /\ UNCHANGED <<workers, script, spawned, ctask, returned, fetched, evars, wvars,
                   hvars, panicked>>
    /\ UNCHANGED <<svars, rvars>>

\* BlockOn: taskexecutor.wg.Wait()
BlockOn ==
    /\ Running /\ cpc = "wait"
    /\ wg = 0
    /\ Return
    /\ UNCHANGED <<workers, script, spawned, ctask, returned, fetched, evars, wvars,
                   hvars, panicked>>
    /\ UNCHANGED <<svars, rvars>>

\* GetResults: return taskexecutor.results
GetResults ==
    /\ Running /\ cpc = "get"
    /\ returned' = results
    /\ Return
    /\ UNCHANGED <<workers, script, spawned, ctask, fetched, evars, wvars,
                   hvars, panicked>>
    /\ UNCHANGED <<svars, rvars>>

\* GetResultByTaskId: return taskexecutor.results[taskid]
\* (a map read of a missing key gives the zero value)
GetResultByTaskId ==
    /\ Running /\ cpc = "getbyid"
    /\ \E taskid \in 0 .. 1 :
          fetched' = [id |-> taskid,
                      value |-> IF taskid \in DOMAIN results
                                  THEN results[taskid] ELSE ZeroValue]
    /\ Return
    /\ UNCHANGED <<workers, script, spawned, ctask, returned, evars, wvars,
                   hvars, panicked>>
    /\ UNCHANGED <<svars, rvars>>

\* ----------------------------------------------------------- the workers
\* the map after results[id] = value
MapStore(m, id, value) ==
    [i \in DOMAIN m \cup {id} |-> IF i = id THEN value ELSE m[i]]

\* TaskWorker with a receive that looks at the closed flag first and
\* leaves as soon as the channel is closed, buffered tasks or not
WorkerReceiveClosedFirst(w) ==
    /\ Running /\ wpc[w] = "recv"
    /\ IF closed
         THEN /\ wpc' = [wpc EXCEPT ![w] = "wgdone"]
              /\ UNCHANGED <<wtask, jobs, taken>>
         ELSE /\ jobs # << >>
              /\ wtask' = [wtask EXCEPT ![w] = Head(jobs)]
              /\ jobs' = Tail(jobs)
              /\ taken' = [taken EXCEPT ![Head(jobs).seq] = @ + 1]
              /\ wpc' = [wpc EXCEPT ![w] = "exec"]
    /\ UNCHANGED <<cvars, jobcounter, closed, results, mu, wg, wold,
                   assigned, ran, written, submitted, completed, closedWith,
                   panicked>>
    /\ UNCHANGED <<svars, rvars>>

\* TaskWorker: task, more := <-taskexecutor.jobs
\* (blocks while the channel is open and empty; a closed channel still
\* hands out what it buffers, and reports more = false once it is empty)
WorkerReceive(w) ==
    /\ Running /\ wpc[w] = "recv"
    /\ IF jobs # << >>
         THEN /\ wtask' = [wtask EXCEPT ![w] = Head(jobs)]
              /\ jobs' = Tail(jobs)
              /\ taken' = [taken EXCEPT ![Head(jobs).seq] = @ + 1]
              /\ wpc' = [wpc EXCEPT ![w] = "exec"]
         ELSE /\ closed
              /\ wpc' = [wpc EXCEPT ![w] = "wgdone"]
              /\ UNCHANGED <<wtask, jobs, taken>>
    /\ UNCHANGED <<cvars, jobcounter, closed, results, mu, wg, wold,
                   assigned, ran, written, submitted, completed, closedWith, panicked>>
    /\ UNCHANGED <<svars, rvars>>

\* TaskWorker: returnValue := task.job()
\* (the value a job returns is modelled by the number of the task it ran for)
WorkerExecute(w) ==
    /\ Running /\ wpc[w] = "exec"
    /\ ran' = [ran EXCEPT ![wtask[w].seq] = @ + 1]
    /\ wpc' = [wpc EXCEPT ![w] = "lock"]
    /\ UNCHANGED <<cvars, evars, wtask, wold, assigned, taken, written,
                   submitted, completed, closedWith, panicked>>
    /\ UNCHANGED <<svars, rvars>>

\* TaskWorker with a Lock that does not wait for the mutex to be free
WorkerLockNoWait(w) ==
    /\ Running /\ wpc[w] = "lock"
    /\ mu' = w
    /\ wpc' = [wpc EXCEPT ![w] = "store"]
    /\ UNCHANGED <<cvars, jobcounter, jobs, closed, results, wg, wtask, wold,
                   hvars, panicked>>
    /\ UNCHANGED <<svars, rvars>>

\* TaskWorker: taskexecutor.mu.Lock()
WorkerLock(w) ==
    /\ Running /\ wpc[w] = "lock"
    /\ mu = NoWorker
    /\ mu' = w
    /\ wpc' = [wpc EXCEPT ![w] = "store"]
    /\ UNCHANGED <<cvars, jobcounter, jobs, closed, results, wg, wtask, wold,
                   hvars, panicked>>
    /\ UNCHANGED <<svars, rvars>>

\* TaskWorker: taskexecutor.results[task.id] = returnValue
WorkerStore(w) ==
    /\ Running /\ wpc[w] = "store"
    /\ results' = MapStore(results, wtask[w].id, wtask[w].seq)
    /\ written' = written \cup {wtask[w].seq}
    /\ wpc' = [wpc EXCEPT ![w] = "unlock"]
    /\ UNCHANGED <<cvars, jobcounter, jobs, closed, mu, wg, wtask, wold,
                   assigned, taken, ran, submitted, completed, closedWith, panicked>>
    /\ UNCHANGED <<svars, rvars>>

\* TaskWorker: taskexecutor.mu.Unlock()
WorkerUnlock(w) ==
    /\ Running /\ wpc[w] = "unlock"
    /\ mu' = NoWorker
    /\ wpc' = [wpc EXCEPT ![w] = "load"]
    /\ UNCHANGED <<cvars, jobcounter, jobs, closed, results, wg, wtask, wold,
                   hvars, panicked>>
    /\ UNCHANGED <<svars, rvars>>

\* TaskWorker: oldjobcounter := taskexecutor.jobcounter.Load()
WorkerLoad(w) ==
    /\ Running /\ wpc[w] = "load"
    /\ wold' = [wold EXCEPT ![w] = jobcounter]
    /\ wpc' = [wpc EXCEPT ![w] = "swap"]
    /\ UNCHANGED <<cvars, evars, wtask, hvars, panicked>>
    /\ UNCHANGED <<svars, rvars>>

\* TaskWorker: taskexecutor.jobcounter.Swap(oldjobcounter - 1), and loop
WorkerSwap(w) ==
    /\ Running /\ wpc[w] = "swap"
    /\ jobcounter' = wold[w] - 1
    /\ completed' = completed + 1
    /\ wpc' = [wpc EXCEPT ![w] = "recv"]
    /\ wtask' = [wtask EXCEPT ![w] = NoTask]
    /\ wold' = [wold EXCEPT ![w] = 0]
    /\ UNCHANGED <<cvars, jobs, closed, results, mu, wg, assigned, taken,
                   ran, written, submitted, closedWith, panicked>>
    /\ UNCHANGED <<svars, rvars>>

\* TaskWorker without the break: after wg.Done() it goes on receiving
WorkerDoneNoBreak(w) ==
    /\ Running /\ wpc[w] = "wgdone"
    /\ IF wg - 1 < 0
         THEN /\ panicked' = "sync: negative WaitGroup counter"
              /\ UNCHANGED <<wg, wpc>>
         ELSE /\ wg' = wg - 1
              /\ wpc' = [wpc EXCEPT ![w] = "recv"]
              /\ UNCHANGED panicked
    /\ UNCHANGED <<cvars, jobcounter, jobs, closed, results, mu, wtask, wold,
                   hvars>>
    /\ UNCHANGED <<svars, rvars>>

\* TaskWorker: taskexecutor.wg.Done(); break
WorkerDone(w) ==
    /\ Running /\ wpc[w] = "wgdone"
    /\ IF wg - 1 < 0
         THEN /\ panicked' = "sync: negative WaitGroup counter"
              /\ UNCHANGED <<wg, wpc>>
         ELSE /\ wg' = wg - 1
              /\ wpc' = [wpc EXCEPT ![w] = "exited"]
              /\ UNCHANGED panicked
    /\ UNCHANGED <<cvars, jobcounter, jobs, closed, results, mu, wtask, wold,
                   hvars>>
    /\ UNCHANGED <<svars, rvars>>

\* ------------------------------------------------------ the specification
Caller ==
    \/ InitGo
    \/ InitWgAdd
    \/ AddTaskLoad
    \/ AddTaskSend
    \/ AddTaskAdd
    \/ CloseCheck
    \/ CloseJobs
    \/ BlockOn
    \/ GetResults
    \/ GetResultByTaskId

Worker(w) ==
    \/ WorkerReceive(w)
    \/ WorkerExecute(w)
    \/ WorkerLock(w)
    \/ WorkerStore(w)
    \/ WorkerUnlock(w)
    \/ WorkerLoad(w)
    \/ WorkerSwap(w)
    \/ WorkerDone(w)

Next == Caller \/ \E w \in WorkerIds : Worker(w)

Spec == Init /\ [][Next]_vars

\* the Go scheduler runs every goroutine that can take a step
FairSpec == Spec /\ WF_vars(Caller) /\ \A w \in WorkerIds : WF_vars(Worker(w))

\* ------------------------------------------------------------ properties
\* the number of AddTask calls of the caller's script
NumTasks == Cardinality({i \in DOMAIN script : script[i] = "AddTask"})

\* the caller runs AddTask N times, then Close, then BlockOn (then reads)
IsMain == script = MainScript(NumTasks)

\* the caller has returned from a call of op
HasReturned(op) == \E i \in 1 .. (ip - 1) : script[i] = op

\* the workers InitializeTaskExecutor was asked for
Pool == {w \in WorkerIds : w < workers}

\* task k has been put on the jobs channel
Sent(k) == k < Len(assigned) \/ (k = Len(assigned) /\ cpc # "send")

\* how often task k is buffered in the jobs channel
Buffered(k) == Cardinality({i \in DOMAIN jobs : jobs[i].seq = k})

\* C1: after AddTask N times, Close and BlockOn by a single caller, the map
\* GetResults returns has exactly N entries, with the keys 0 .. N-1.
C1_ResultsHaveAllIds ==
    (IsMain /\ workers >= 1 /\ HasReturned("GetResults"))
        => DOMAIN returned = 0 .. (NumTasks - 1)

\* C2: the step of Close that closes the jobs channel is taken only when no
\* task is buffered and no worker is running a job or has yet to store its
\* result.
C2_CloseOnlyWhenDrained ==
    [][(~closed /\ closed')
         => (/\ jobs = << >>
             /\ \A w \in WorkerIds : wpc[w] \notin {"exec", "lock", "store"})]_vars

\* C3: with at least one worker, a caller that runs AddTask N times, Close
\* and BlockOn returns from BlockOn: as long as it has not, some goroutine
\* can still take a step that changes the state (no hang, no endless spin).
C3_ShutdownCompletes ==
    (IsMain /\ workers >= 1)
        => (HasReturned("BlockOn") \/ ENABLED <<Next>>_vars)

\* C4: task ids are unique and monotonic: a task submitted later has a
\* strictly larger id than every task submitted before it.
C4_IdsUniqueMonotonic ==
    \A i, j \in DOMAIN assigned : i < j => assigned[i] < assigned[j]

\* C5: whenever no AddTask call and no worker decrement is in progress, the
\* job counter equals the tasks submitted minus the tasks completed, and
\* JobsDone is true exactly when every submitted task has been completed.
C5_CounterExact ==
    (/\ cpc \notin {"load", "send", "add"}
     /\ \A w \in WorkerIds : wpc[w] # "swap")
        => (/\ jobcounter = submitted - completed
            /\ JobsDone <=> (completed = submitted))

\* C6: the job counter is never negative.
C6_CounterNonNegative == jobcounter >= 0

\* C7: whenever BlockOn has returned, every worker has seen the closed
\* queue and exited, no job is running, and every task received from the
\* queue has had its result written to the results map.
C7_JoinBarrier ==
    HasReturned("BlockOn")
        => (/\ \A w \in Pool : wpc[w] = "exited"
            /\ \A w \in WorkerIds : wpc[w] \in {"unborn", "exited"}
            /\ \A k \in TaskSeqs : taken[k] >= 1 => k \in written)

\* C7 witness: BlockOn has returned on an executor whose workers ran tasks.
C7_Witness ==
    /\ HasReturned("BlockOn")
    /\ workers = MaxWorkers
    /\ \A k \in 1 .. MaxTasks : taken[k] = 1

\* C8: no work is dropped or duplicated: the channel never buffers more
\* than 10 tasks, every task that was sent is either still buffered or was
\* received exactly once, and no job is run twice.
C8_NoDropNoDuplicate ==
    /\ Len(jobs) <= QueueCap
    /\ \A k \in TaskSeqs :
          /\ taken[k] <= 1
          /\ ran[k] <= taken[k]
          /\ Buffered(k) + taken[k] = (IF Sent(k) THEN 1 ELSE 0)
    /\ Cardinality({w \in WorkerIds : wtask[w] # NoTask})
          = Cardinality({wtask[w].seq : w \in {x \in WorkerIds : wtask[x] # NoTask}})

\* C8 witness: AddTask is blocked on a full channel: 10 tasks are buffered
\* and the caller waits to send the next one.
C8_Witness ==
    /\ cpc = "send"
    /\ Len(jobs) = QueueCap
    /\ submitted = QueueCap
    /\ ctask.seq = QueueCap + 1

\* C9: a second Close on an executor whose queue is already closed never
\* runs close on the closed jobs channel.
C9_SecondCloseHarmless == panicked # "close of closed channel"

\* C10: InitializeTaskExecutor returns no executor for a worker count <= 0,
\* and for n >= 1 returns one with exactly n workers started.
C10_InitializeValidates ==
    /\ workers <= 0 => ~HasReturned("Initialize")
    /\ (workers >= 1 /\ HasReturned("Initialize"))
          => (/\ {w \in WorkerIds : wpc[w] # "unborn"} = Pool
              /\ Cardinality(Pool) = workers)

\* the workers that have left the loop of TaskWorker
Leaving == {w \in WorkerIds : wpc[w] \in {"wgdone", "exited"}}

\* the workers between mu.Lock() and mu.Unlock()
InCritical == {w \in WorkerIds : wpc[w] \in {"store", "unlock"}}

\* C14: GetResults and GetResultByTaskId return a value only when every
\* submitted task has completed (its result is stored); a call made before
\* that is rejected.
C14_QueryGuarded ==
    [][(cpc \in {"get", "getbyid"} /\ ip' = ip + 1)
         => \A k \in 1 .. submitted : k \in written]_vars

\* C16: a worker leaves its loop only on a receive from the closed, empty
\* channel, so every task buffered when Close closed the channel has been
\* received once a worker has left, and has been run and stored once all
\* workers have exited.
C16_NoExitBeforeDrained ==
    /\ Leaving # {} => (closed /\ jobs = << >>)
    /\ Leaving # {} => \A k \in closedWith : taken[k] = 1
    /\ (\A w \in Pool : wpc[w] = "exited")
          => \A k \in closedWith : ran[k] = 1 /\ k \in written

\* C16 witness: Close closed the channel with tasks buffered, and all the
\* workers have exited since.
C16_Witness ==
    /\ closedWith # {}
    /\ workers = MaxWorkers
    /\ \A w \in Pool : wpc[w] = "exited"

\* C17: at most one worker is between mu.Lock and mu.Unlock, and a worker
\* writes results[task.id] only while it holds the mutex.
C17_MutualExclusion ==
    /\ Cardinality(InCritical) <= 1
    /\ \A w \in WorkerIds : w \in InCritical <=> mu = w

\* C17 witness: one worker is about to write the map while another waits
\* for the mutex.
C17_Witness ==
    \E w1, w2 \in WorkerIds :
        /\ wpc[w1] = "store" /\ mu = w1
        /\ wpc[w2] = "lock"

\* C20: the WaitGroup counter never drops below zero: every wg.Done comes
\* after all wg.Add calls, each worker calls it once, and the counter is
\* zero once all workers have exited.
C20_WaitGroupNeverNegative ==
    /\ wg >= 0
    /\ panicked # "sync: negative WaitGroup counter"
    /\ Leaving # {} => HasReturned("Initialize")
    /\ wg = spawned - Cardinality({w \in WorkerIds : wpc[w] = "exited"})
    /\ (HasReturned("Initialize") /\ \A w \in Pool : wpc[w] = "exited") => wg = 0

\* C20 witness: every worker of a full pool has called wg.Done and the
\* counter is back at zero.
C20_Witness ==
    /\ workers = MaxWorkers
    /\ \A w \in Pool : wpc[w] = "exited"
    /\ wg = 0

\* ========================================================= the port scanner
\* port-scanner/main.go: a scan function starts ps.workers workers that read
\* ports from jobs and send ScanResults on results, a goroutine that sends
\* the ports, and a goroutine that closes results after wg.Wait(); it then
\* collects from results until the channel is closed, sorts and returns.

\* var commonPorts
CommonPorts ==
    (20 :> "FTP Data") @@ (21 :> "FTP Control") @@ (22 :> "SSH")
    @@ (23 :> "Telnet") @@ (25 :> "SMTP") @@ (53 :> "DNS") @@ (80 :> "HTTP")
    @@ (110 :> "POP3") @@ (143 :> "IMAP") @@ (443 :> "HTTPS") @@ (445 :> "SMB")
    @@ (3306 :> "MySQL") @@ (3389 :> "RDP") @@ (5432 :> "PostgreSQL")
    @@ (5900 :> "VNC")

\* commonPorts[port]: the name, or "" for a port that is not in the map
ServiceOf(port) == IF port \in DOMAIN CommonPorts THEN CommonPorts[port] ELSE ""

\* ScanPort: the dial succeeds exactly on the host's open ports
ScanPortServiceIfOpen(port) ==
    [Port |-> port,
     Open |-> port \in openPorts,
     Service |-> IF port \in openPorts THEN ServiceOf(port) ELSE ""]

ScanPort(port) ==
    [Port |-> port, Open |-> port \in openPorts, Service |-> ServiceOf(port)]

\* the comparison handed to sort.Slice
LessReversed(a, b) == a.Port > b.Port

Less(a, b) == a.Port < b.Port

\* sort.Slice(scanResults, less)
RECURSIVE InsertByLess(_, _)
InsertByLess(r, sorted) ==
    IF sorted = << >> THEN <<r>>
    ELSE IF Less(r, Head(sorted)) THEN <<r>> \o sorted
    ELSE <<Head(sorted)>> \o InsertByLess(r, Tail(sorted))

RECURSIVE SortSlice(_)
SortSlice(rs) ==
    IF rs = << >> THEN << >> ELSE InsertByLess(Head(rs), SortSlice(Tail(rs)))

\* sort.Ints over the keys of a map: the keys in ascending order
RECURSIVE SortInts(_)
SortInts(S) ==
    IF S = {} THEN << >>
    ELSE LET m == CHOOSE x \in S : \A y \in S : x <= y
         IN  <<m>> \o SortInts(S \ {m})

\* the inputs of the scans
RangeUniverse    == 22 .. (22 + MaxPorts - 1)
SpecificUniverse == {22, 80, 3000}
OpenChoices      == {{}, {3000}, {22, 3000}}
\* scanCommonPorts sends the 15 ports of the table: it is run with at most
\* one worker (with two, the orders of its results exceed 10 million states)
CommonWorkerCounts == {0, 1}
RECURSIVE PortLists(_)
PortLists(n) ==
    IF n = 0 THEN {<< >>}
    ELSE PortLists(n - 1)
           \cup {Append(l, q) : l \in {x \in PortLists(n - 1) : Len(x) = n - 1},
                                q \in SpecificUniverse}

\* the capacity of jobs and of results: len(ports), or endPort-startPort+1
ScanCap == Len(sports)

ScanRunning == spanic = "none"

\* the state in which a scan function has made its channels and WaitGroup
ScanInitFor(f, ports, w, open) ==
    /\ sfunc = f
    /\ sports = ports
    /\ sworkers = w
    /\ openPorts = open
    /\ sjobs = << >>
    /\ sjobsClosed = FALSE
    /\ sresults = << >>
    /\ sresClosed = FALSE
    /\ swg = 0
    /\ mpc = "loop"
    /\ mi = 0
    /\ scanResults = << >>
    /\ sret = << >>
    /\ swpc = [x \in ScanWorkerIds |-> "unborn"]
    /\ swjob = [x \in ScanWorkerIds |-> NoResult]
    /\ sendpc = "unborn"
    /\ sendi = 1
    /\ closepc = "unborn"
    /\ spanic = "none"

ScanInit ==
    /\ ExecIdle
    /\ ReloadIdle
    /\ \E w \in 0 .. MaxScanWorkers, open \in OpenChoices :
          \/ \E a \in RangeUniverse : \E b \in RangeUniverse :
                /\ a <= b
                /\ ScanInitFor("ScanRange", [i \in 1 .. (b - a + 1) |-> a + i - 1], w, open)
          \/ \E l \in PortLists(MaxPorts) : ScanInitFor("ScanSpecificPorts", l, w, open)
          \/ /\ w \in CommonWorkerCounts
             /\ ScanInitFor("scanCommonPorts", SortInts(DOMAIN CommonPorts), w, open)

\* the worker-starting loop: for i := 0; i < ps.workers; i++ { wg.Add(1) ...
ScanLoop ==
    /\ ScanRunning /\ mpc = "loop"
    /\ IF mi < sworkers
         THEN /\ swg' = swg + 1
              /\ mpc' = "go"
         ELSE /\ mpc' = "gosend"
              /\ UNCHANGED swg
    /\ UNCHANGED <<sfunc, sports, sworkers, openPorts, sjobs, sjobsClosed,
                   sresults, sresClosed, mi, scanResults, sret, swpc, swjob,
                   sendpc, sendi, closepc, spanic>>
    /\ UNCHANGED <<xvars, rvars>>

\* ... go func() { defer wg.Done(); for port := range jobs {...} }() }
ScanGoWorker ==
    /\ ScanRunning /\ mpc = "go"
    /\ swpc' = [swpc EXCEPT ![mi] = "recv"]
    /\ mi' = mi + 1
    /\ mpc' = "loop"
    /\ UNCHANGED <<sfunc, sports, sworkers, openPorts, sjobs, sjobsClosed,
                   sresults, sresClosed, swg, scanResults, sret, swjob,
                   sendpc, sendi, closepc, spanic>>
    /\ UNCHANGED <<xvars, rvars>>

\* go func() { for ... { jobs <- port } ... }()
ScanGoSender ==
    /\ ScanRunning /\ mpc = "gosend"
    /\ sendpc' = "send"
    /\ mpc' = "goclose"
    /\ UNCHANGED <<sfunc, sports, sworkers, openPorts, sjobs, sjobsClosed,
                   sresults, sresClosed, swg, mi, scanResults, sret, swpc,
                   swjob, sendi, closepc, spanic>>
    /\ UNCHANGED <<xvars, rvars>>

\* go func() { wg.Wait(); close(results) }()
ScanGoCloser ==
    /\ ScanRunning /\ mpc = "goclose"
    /\ closepc' = "wait"
    /\ mpc' = "collect"
    /\ UNCHANGED <<sfunc, sports, sworkers, openPorts, sjobs, sjobsClosed,
                   sresults, sresClosed, swg, mi, scanResults, sret, swpc,
                   swjob, sendpc, sendi, spanic>>
    /\ UNCHANGED <<xvars, rvars>>

\* for result := range results { scanResults = append(scanResults, result) }
ScanCollect ==
    /\ ScanRunning /\ mpc = "collect"
    /\ IF sresults # << >>
         THEN /\ scanResults' = Append(scanResults, Head(sresults))
              /\ sresults' = Tail(sresults)
              /\ UNCHANGED mpc
         ELSE /\ sresClosed
              /\ mpc' = "sort"
              /\ UNCHANGED <<scanResults, sresults>>
    /\ UNCHANGED <<sfunc, sports, sworkers, openPorts, sjobs, sjobsClosed,
                   sresClosed, swg, mi, sret, swpc, swjob, sendpc, sendi,
                   closepc, spanic>>
    /\ UNCHANGED <<xvars, rvars>>

\* sort.Slice(scanResults, ...); return scanResults
ScanSortReturn ==
    /\ ScanRunning /\ mpc = "sort"
    /\ scanResults' = SortSlice(scanResults)
    /\ sret' = SortSlice(scanResults)
    /\ mpc' = "returned"
    /\ UNCHANGED <<sfunc, sports, sworkers, openPorts, sjobs, sjobsClosed,
                   sresults, sresClosed, swg, mi, swpc, swjob, sendpc, sendi,
                   closepc, spanic>>
    /\ UNCHANGED <<xvars, rvars>>

\* worker: for port := range jobs (the loop ends on the closed, empty channel)
ScanWorkerReceive(w) ==
    /\ ScanRunning /\ swpc[w] = "recv"
    /\ IF sjobs # << >>
         THEN /\ swjob' = [swjob EXCEPT ![w] = [NoResult EXCEPT !.Port = Head(sjobs)]]
              /\ sjobs' = Tail(sjobs)
              /\ swpc' = [swpc EXCEPT ![w] = "scan"]
         ELSE /\ sjobsClosed
              /\ swpc' = [swpc EXCEPT ![w] = "done"]
              /\ UNCHANGED <<swjob, sjobs>>
    /\ UNCHANGED <<sfunc, sports, sworkers, openPorts, sjobsClosed, sresults,
                   sresClosed, swg, mpc, mi, scanResults, sret, sendpc, sendi,
                   closepc, spanic>>
    /\ UNCHANGED <<xvars, rvars>>

\* worker: ps.ScanPort(port)
ScanWorkerScan(w) ==
    /\ ScanRunning /\ swpc[w] = "scan"
    /\ swjob' = [swjob EXCEPT ![w] = ScanPort(swjob[w].Port)]
    /\ swpc' = [swpc EXCEPT ![w] = "send"]
    /\ UNCHANGED <<sfunc, sports, sworkers, openPorts, sjobs, sjobsClosed,
                   sresults, sresClosed, swg, mpc, mi, scanResults, sret,
                   sendpc, sendi, closepc, spanic>>
    /\ UNCHANGED <<xvars, rvars>>

\* worker: results <- (the ScanResult)
ScanWorkerSend(w) ==
    /\ ScanRunning /\ swpc[w] = "send"
    /\ IF sresClosed
         THEN /\ spanic' = "send on closed channel"
              /\ UNCHANGED <<sresults, swpc, swjob>>
         ELSE /\ Len(sresults) < ScanCap
              /\ sresults' = Append(sresults, swjob[w])
              /\ swpc' = [swpc EXCEPT ![w] = "recv"]
              /\ swjob' = [swjob EXCEPT ![w] = NoResult]
              /\ UNCHANGED spanic
    /\ UNCHANGED <<sfunc, sports, sworkers, openPorts, sjobs, sjobsClosed,
                   sresClosed, swg, mpc, mi, scanResults, sret, sendpc, sendi,
                   closepc>>
    /\ UNCHANGED <<xvars, rvars>>

\* worker: the deferred wg.Done()
ScanWorkerDone(w) ==
    /\ ScanRunning /\ swpc[w] = "done"
    /\ IF swg - 1 < 0
         THEN /\ spanic' = "sync: negative WaitGroup counter"
              /\ UNCHANGED <<swg, swpc>>
         ELSE /\ swg' = swg - 1
              /\ swpc' = [swpc EXCEPT ![w] = "exited"]
              /\ UNCHANGED spanic
    /\ UNCHANGED <<sfunc, sports, sworkers, openPorts, sjobs, sjobsClosed,
                   sresults, sresClosed, mpc, mi, scanResults, sret, swjob,
                   sendpc, sendi, closepc>>
    /\ UNCHANGED <<xvars, rvars>>

\* sender: jobs <- port
ScanSenderSend ==
    /\ ScanRunning /\ sendpc = "send" /\ sendi <= Len(sports)
    /\ IF sjobsClosed
         THEN /\ spanic' = "send on closed channel"
              /\ UNCHANGED <<sjobs, sendi>>
         ELSE /\ Len(sjobs) < ScanCap
              /\ sjobs' = Append(sjobs, sports[sendi])
              /\ sendi' = sendi + 1
              /\ UNCHANGED spanic
    /\ UNCHANGED <<sfunc, sports, sworkers, openPorts, sjobsClosed, sresults,
                   sresClosed, swg, mpc, mi, scanResults, sret, swpc, swjob,
                   sendpc, closepc>>
    /\ UNCHANGED <<xvars, rvars>>

\* sender: the end of its loop; scanCommonPorts and ScanSpecificPorts then
\* close(jobs), ScanRange has no close(jobs)
ScanSenderEnd ==
    /\ ScanRunning /\ sendpc = "send" /\ sendi > Len(sports)
    /\ sendpc' = "exited"
    /\ sjobsClosed' = (sfunc # "ScanRange")
    /\ UNCHANGED <<sfunc, sports, sworkers, openPorts, sjobs, sresults,
                   sresClosed, swg, mpc, mi, scanResults, sret, swpc, swjob,
                   sendi, closepc, spanic>>
    /\ UNCHANGED <<xvars, rvars>>

\* closer that does not wait for the workers
ScanCloserNoWait ==
    /\ ScanRunning /\ closepc = "wait"
    /\ closepc' = "close"
    /\ UNCHANGED <<sfunc, sports, sworkers, openPorts, sjobs, sjobsClosed,
                   sresults, sresClosed, swg, mpc, mi, scanResults, sret,
                   swpc, swjob, sendpc, sendi, spanic>>
    /\ UNCHANGED <<xvars, rvars>>

\* closer: wg.Wait()
ScanCloserWait ==
    /\ ScanRunning /\ closepc = "wait"
    /\ swg = 0
    /\ closepc' = "close"
    /\ UNCHANGED <<sfunc, sports, sworkers, openPorts, sjobs, sjobsClosed,
                   sresults, sresClosed, swg, mpc, mi, scanResults, sret,
                   swpc, swjob, sendpc, sendi, spanic>>
    /\ UNCHANGED <<xvars, rvars>>

\* closer: close(results)
ScanCloserClose ==
    /\ ScanRunning /\ closepc = "close"
    /\ IF sresClosed
         THEN /\ spanic' = "close of closed channel"
              /\ UNCHANGED <<sresClosed, closepc>>
         ELSE /\ sresClosed' = TRUE
              /\ closepc' = "exited"
              /\ UNCHANGED spanic
    /\ UNCHANGED <<sfunc, sports, sworkers, openPorts, sjobs, sjobsClosed,
                   sresults, swg, mpc, mi, scanResults, sret, swpc, swjob,
                   sendpc, sendi>>
    /\ UNCHANGED <<xvars, rvars>>

ScanMain ==
    \/ ScanLoop
    \/ ScanGoWorker
    \/ ScanGoSender
    \/ ScanGoCloser
    \/ ScanCollect
    \/ ScanSortReturn

ScanWorker(w) ==
    \/ ScanWorkerReceive(w)
    \/ ScanWorkerScan(w)
    \/ ScanWorkerSend(w)
    \/ ScanWorkerDone(w)

ScanSender == ScanSenderSend \/ ScanSenderEnd

ScanCloser == ScanCloserWait \/ ScanCloserClose

ScanNext ==
    \/ ScanMain
    \/ \E w \in ScanWorkerIds : ScanWorker(w)
    \/ ScanSender
    \/ ScanCloser

ScanSpec == ScanInit /\ [][ScanNext]_vars

\* ------------------------------------------------ properties of the scanner
\* the ports of a sequence of ScanResults, in order
PortsOf(rs) == [i \in DOMAIN rs |-> rs[i].Port]

\* how often port occurs in a sequence of ports
Occurrences(port, ps) == Cardinality({i \in DOMAIN ps : ps[i] = port})

\* the two sequences of ports hold the same ports, each as often
SamePorts(ps, qs) ==
    /\ Len(ps) = Len(qs)
    /\ \A i \in DOMAIN ps : Occurrences(ps[i], ps) = Occurrences(ps[i], qs)

Distinct(ps) == \A i, j \in DOMAIN ps : i # j => ps[i] # ps[j]

StrictlyAscending(ps) == \A i \in 1 .. (Len(ps) - 1) : ps[i] < ps[i + 1]

\* the scan workers that were started
ScanPool == {w \in ScanWorkerIds : swpc[w] # "unborn"}

\* every ScanResult that exists: in a worker's hands, in the results
\* channel, collected, or returned
AllResults ==
    {swjob[w] : w \in {x \in ScanWorkerIds : swpc[x] = "send"}}
        \cup {sresults[i] : i \in DOMAIN sresults}
        \cup {scanResults[i] : i \in DOMAIN scanResults}
        \cup {sret[i] : i \in DOMAIN sret}

\* C11: for start <= end and at least one worker, ScanRange returns, and it
\* returns the results of the ports start .. end, one each, ascending.
C11_ScanRangeReturns ==
    (sfunc = "ScanRange" /\ sworkers >= 1)
        => (/\ mpc # "returned" => ENABLED <<ScanNext>>_vars
            /\ mpc = "returned" => PortsOf(sret) = sports)

\* C12: for distinct ports and at least one worker, ScanSpecificPorts
\* returns, with exactly len(ports) results, one per requested port, in
\* ascending order of port.
C12_SpecificPortsSorted ==
    (sfunc = "ScanSpecificPorts" /\ sworkers >= 1 /\ Distinct(sports))
        => (/\ mpc # "returned" => ENABLED <<ScanNext>>_vars
            /\ mpc = "returned"
                  => (/\ Len(sret) = Len(sports)
                      /\ SamePorts(PortsOf(sret), sports)
                      /\ StrictlyAscending(PortsOf(sret))))

\* C12 witness: a scan of three distinct ports handed over in descending
\* order has returned, with two workers.
C12_Witness ==
    /\ sfunc = "ScanSpecificPorts"
    /\ mpc = "returned"
    /\ sworkers = MaxScanWorkers
    /\ Len(sports) = MaxPorts
    /\ Distinct(sports)
    /\ sports[1] > sports[2]

\* C13: every ScanResult has Open = true iff the dial of its port
\* succeeded, and Service = the table's name of the port, or "" for a port
\* outside the table, whether or not the dial succeeded; no port is scanned
\* twice; and with at least one worker a scan stops only when every
\* requested port has its result collected, and what it returns holds one
\* result per requested port.
C13_FailedProbeIsAResult ==
    /\ \A r \in AllResults :
          /\ r.Open <=> r.Port \in openPorts
          /\ r.Service = ServiceOf(r.Port)
          /\ r.Port \in {sports[i] : i \in DOMAIN sports}
    /\ sworkers >= 1 =>
          /\ SamePorts(PortsOf(scanResults), sports) \/ ENABLED <<ScanNext>>_vars
          /\ mpc = "returned" => SamePorts(PortsOf(sret), sports)

\* C13 witness: a scan has returned results with a failed dial of a port of
\* the table, and a successful dial of a port outside it.
C13_Witness ==
    /\ mpc = "returned"
    /\ \E i, j \in DOMAIN sret :
          /\ ~sret[i].Open /\ sret[i].Service = "HTTP"
          /\ sret[j].Open /\ sret[j].Service = ""

\* C18: in every scan function the results channel is closed only after
\* every worker has exited: no worker sends on the closed channel and the
\* channel is not closed twice.
C18_ResultsClosedAfterWorkers ==
    /\ spanic = "none"
    /\ (sresClosed \/ closepc = "close")
          => (/\ mi >= sworkers
              /\ \A w \in ScanPool : swpc[w] = "exited")

\* C18 witness: the results channel was closed in a scan with two workers
\* that scanned ports.
C18_Witness ==
    /\ sresClosed
    /\ sworkers = MaxScanWorkers
    /\ Cardinality(ScanPool) = MaxScanWorkers
    /\ Len(scanResults) + Len(sresults) = MaxPorts

\* ======================================================== the live reloader
\* live-reloader/main.go, for one watched file: every ticker round VisitDir
\* starts a MonitorFileChanges goroutine for the path; the file's content
\* changes under it; GetFileChangesFromChannel drains the changes channel.

WatchedPath == "file"

\* string(sha256 of the content): equal contents, equal hashes
Hash(c) == <<"sha256", c>>

ReloadInit ==
    /\ ExecIdle
    /\ ScanIdle
    /\ ReloadIdle

\* main, VisitDir: a ticker round starts go MonitorFileChanges(livereloader, path)
ReloadTick ==
    /\ started < MaxMonitors
    /\ started' = started + 1
    /\ rpc' = [rpc EXCEPT ![started + 1] = "read"]
    /\ UNCHANGED <<content, edits, stored, changes, rhash, rload, rread,
                   notified, delivered>>
    /\ UNCHANGED <<xvars, svars>>

\* the environment: the file's content changes
ReloadEdit ==
    /\ edits < MaxEdits
    /\ \E c \in Contents \ {content} : content' = c
    /\ edits' = edits + 1
    /\ UNCHANGED <<stored, changes, rpc, rhash, rload, rread, started,
                   notified, delivered>>
    /\ UNCHANGED <<xvars, svars>>

\* MonitorFileChanges: c, err := os.ReadFile(path); bs := sha256 of c
MonitorRead(g) ==
    /\ rpc[g] = "read"
    /\ rread' = [rread EXCEPT ![g] = content]
    /\ rhash' = [rhash EXCEPT ![g] = Hash(content)]
    /\ rpc' = [rpc EXCEPT ![g] = "load"]
    /\ UNCHANGED <<content, edits, stored, changes, rload, started, notified,
                   delivered>>
    /\ UNCHANGED <<xvars, svars>>

\* MonitorFileChanges: hashvalue, exists := livereloader.filehashes.Load(path)
MonitorLoad(g) ==
    /\ rpc[g] = "load"
    /\ rload' = [rload EXCEPT ![g] = stored]
    /\ rpc' = [rpc EXCEPT ![g] = "test"]
    /\ UNCHANGED <<content, edits, stored, changes, rhash, rread, started,
                   notified, delivered>>
    /\ UNCHANGED <<xvars, svars>>

\* MonitorFileChanges that notifies on the first observation as well
MonitorTestNoExists(g) ==
    /\ rpc[g] = "test"
    /\ rpc' = [rpc EXCEPT ![g] = IF rload[g] # rhash[g] THEN "send" ELSE "store"]
    /\ UNCHANGED <<content, edits, stored, changes, rhash, rload, rread,
                   started, notified, delivered>>
    /\ UNCHANGED <<xvars, svars>>

\* MonitorFileChanges: if exists { if hashvalue != string(bs) {
MonitorTest(g) ==
    /\ rpc[g] = "test"
    /\ rpc' = [rpc EXCEPT ![g] =
                 IF rload[g] # NoHash /\ rload[g] # rhash[g] THEN "send" ELSE "store"]
    /\ UNCHANGED <<content, edits, stored, changes, rhash, rload, rread,
                   started, notified, delivered>>
    /\ UNCHANGED <<xvars, svars>>

\* MonitorFileChanges: livereloader.changes <- path (blocks while 10 are buffered)
MonitorSend(g) ==
    /\ rpc[g] = "send"
    /\ Len(changes) < ChangesCap
    /\ changes' = Append(changes, WatchedPath)
    /\ notified' = [notified EXCEPT ![g] = @ + 1]
    /\ rpc' = [rpc EXCEPT ![g] = "store"]
    /\ UNCHANGED <<content, edits, stored, rhash, rload, rread, started,
                   delivered>>
    /\ UNCHANGED <<xvars, svars>>

\* MonitorFileChanges: livereloader.filehashes.Store(path, string(bs))
MonitorStore(g) ==
    /\ rpc[g] = "store"
    /\ stored' = rhash[g]
    /\ rpc' = [rpc EXCEPT ![g] = "done"]
    /\ UNCHANGED <<content, edits, changes, rhash, rload, rread, started,
                   notified, delivered>>
    /\ UNCHANGED <<xvars, svars>>

\* GetFileChangesFromChannel: filepath := <-livereloader.changes; changefunc(filepath)
ReloadDeliver ==
    /\ changes # << >>
    /\ changes' = Tail(changes)
    /\ delivered' = delivered + 1
    /\ UNCHANGED <<content, edits, stored, rpc, rhash, rload, rread, started,
                   notified>>
    /\ UNCHANGED <<xvars, svars>>

Monitor(g) ==
    \/ MonitorRead(g)
    \/ MonitorLoad(g)
    \/ MonitorTest(g)
    \/ MonitorSend(g)
    \/ MonitorStore(g)

ReloadNext ==
    \/ ReloadTick
    \/ ReloadEdit
    \/ \E g \in MonitorIds : Monitor(g)
    \/ ReloadDeliver

ReloadSpec == ReloadInit /\ [][ReloadNext]_vars

\* ------------------------------------------- properties of the live reloader
\* the notifications sent for the path so far
TotalNotified == Cardinality({g \in MonitorIds : notified[g] >= 1})

\* C15: a run of MonitorFileChanges sends the path iff a hash was stored
\* for it and differs from the hash of the content just read, sends nothing
\* on the first observation, and in every case stores the hash of the
\* content it read.
C15_NotifyIffHashDiffers ==
    [][\A g \in MonitorIds :
          (rpc[g] = "store" /\ rpc'[g] = "done")
             => (/\ stored' = Hash(rread[g])
                 /\ notified[g] <= 1
                 /\ notified[g] = 1
                       <=> (rload[g] # NoHash /\ rload[g] # Hash(rread[g])))]_vars

\* C15 witness: one run has finished without a notification because no
\* hash was stored, another has finished after sending one.
C15_Witness ==
    \E g, h \in MonitorIds :
        /\ rpc[g] = "done" /\ rload[g] = NoHash /\ notified[g] = 0
        /\ rpc[h] = "done" /\ rload[h] # NoHash /\ notified[h] = 1
        /\ stored = Hash(content)

\* C19: the notifications sent for a path never outnumber the changes of
\* the file's content, also when goroutines for the path overlap.
C19_NoSpuriousNotification == TotalNotified <= edits

====
